---- MODULE Spec2Model ----
(***************************************************************************)
(* A model of tensorflow/core/profiler/lib/profiler_session.cc:             *)
(* ProfilerSession::Create / ProfilerSession (constructor), Status,         *)
(* CollectDataInternal, CollectData and ~ProfilerSession, run by several    *)
(* caller threads against the process-wide ProfilerLock.                    *)
(*                                                                          *)
(* Every thread is a program counter walking through the statements of the  *)
(* member function it is in; one action is one statement (or one loop       *)
(* iteration) of the source.  IS_MOBILE_PLATFORM is the build's             *)
(* preprocessor choice and is fixed by Init.                                *)
(***************************************************************************)
EXTENDS Integers, Sequences, FiniteSets, TLC

\* ------------------------------------------------------------------ bounds
MaxSessions == 2      \* session objects alive at the same time
MaxThreads  == 2      \* caller threads
MaxPlugins  == 2      \* profilers the factory can return
MaxTime     == 2      \* the clock runs from 1 to MaxTime
MaxCollects == 2      \* CollectData calls on one session

Sessions == 1..MaxSessions
Threads  == 1..MaxThreads
Plugins  == 1..MaxPlugins

\* ------------------------------------------------------------ status codes
OK            == "OK"
AlreadyActive == "AlreadyActive"     \* the failure of ProfilerLock::Acquire
Unimplemented == "Unimplemented"     \* errors::Unimplemented, mobile build

VARIABLES
    IS_MOBILE_PLATFORM, \* the build: TRUE iff IS_MOBILE_PLATFORM is defined
    g_session_active,   \* the process lock's flag
    now,                \* profiler::GetCurrentTimeNanos()
    factories,          \* the profilers the registered factories produce
    \* ---- the fields of each ProfilerSession object
    sstate,             \* "none" | "constructing" | "live" | "destroying"
    status_,            \* tensorflow::Status status_
    profiler_lock_,     \* profiler_lock_.Active()
    options_,           \* ProfileOptions options_
    start_time_ns_,     \* <<>> while never assigned, else <<t>>
    profilers_,         \* std::vector<std::unique_ptr<ProfilerInterface>>
    mutex_,             \* the thread holding mutex_, 0 when unlocked
    \* ---- the plugins of each session and the session's history
    pstate,             \* per plugin: "new" | "started" | "stopped"
    factoryOrder,       \* what CreateProfilers returned for the session
    released,           \* how many times the session freed the process lock
    passes,             \* CollectDataInternal bodies that reached their end
    \* ---- each caller thread
    pc,                 \* the statement the thread is at
    self,               \* the session (this) of the call in progress or of
                        \* the last call, 0 when there is none
    op,                 \* the public operation in progress / last returned
    ret,                \* the returned Status, "none" while there is none
    post,               \* start_time_ns arguments PostProcessSingleHostXSpace got
    idx,                \* position of the range-for loop in profilers_
    wake,               \* the time SleepForNanos returns at
    options,            \* the constructor's parameter (const ProfileOptions&
                        \* options) while the constructor runs
    \* ---- what the running call has done so far (dropped when it returns)
    startLog,           \* plugins on which Start was called, in call order
    startFailed,        \* plugins whose Start returned an error
    stopLog,            \* plugins on which Stop was called
    stopFailed,         \* plugins whose Stop returned an error (every such
                        \* Status is discarded by IgnoreError: the set is
                        \* dropped when the stop loop is left)
    collectLog,         \* plugins on which CollectData was called
    collectFailed,      \* plugins whose CollectData returned an error
    space               \* the caller's XSpace: plugin data written, in order

envVars  == <<IS_MOBILE_PLATFORM, factories>>
sessVars == <<sstate, status_, profiler_lock_, options_, start_time_ns_,
              profilers_, mutex_>>
histVars == <<pstate, factoryOrder, released, passes>>
whoVars  == <<self, op>>
thrVars  == <<pc, whoVars, ret, post, idx, wake, options>>
callVars == <<startLog, startFailed, stopLog, stopFailed, collectLog,
              collectFailed, space>>
vars == <<envVars, g_session_active, now, sessVars, histVars, thrVars,
          callVars>>

\* ------------------------------------------------------------ ProfileOptions
Timestamps == (0 - 1)..MaxTime

ProfileOptionsSet ==
    [version : {0, 1}, include_dataset_ops : BOOLEAN,
     start_timestamp_ns : Timestamps]

\* A default-constructed ProfileOptions message.
EmptyOptions ==
    [version |-> 0, include_dataset_ops |-> FALSE, start_timestamp_ns |-> 0]

\* ProfilerSession::DefaultOptions()
DefaultOptions ==
    [version |-> 1, include_dataset_ops |-> TRUE, start_timestamp_ns |-> 0]

\* GetOptions as it would be if an old-format payload kept its timestamp.
GetOptions_KeepsTimestamp(opts) ==
    IF opts.version # 0
    THEN opts
    ELSE [DefaultOptions EXCEPT
            !.include_dataset_ops = opts.include_dataset_ops,
            !.start_timestamp_ns = opts.start_timestamp_ns]

\* GetOptions(opts)
GetOptions(opts) ==
    IF opts.version # 0
    THEN opts
    ELSE [DefaultOptions EXCEPT !.include_dataset_ops = opts.include_dataset_ops]

\* The options callers pass to Create: new-format options that start at once,
\* at the first instant of the clock or at time MaxTime, and old-format
\* payloads carrying a timestamp and either value of the flag.
CallerOptions ==
    {o \in ProfileOptionsSet :
        \/ /\ o.version = 1
           /\ o.include_dataset_ops
           /\ o.start_timestamp_ns \in {0, 1, MaxTime}
        \/ /\ o.version = 0
           /\ o.start_timestamp_ns = MaxTime}

\* ------------------------------------------------------------ ProfilerLock
\* ProfilerLock::Acquire() succeeds iff no session is active.
AcquireOk == ~g_session_active

\* profiler_lock_.Active()
Active(s) == profiler_lock_[s]

\* profiler_lock_.ReleaseIfActive()
ReleaseIfActive(s) ==
    IF Active(s)
    THEN /\ g_session_active' = FALSE
         /\ profiler_lock_' = [profiler_lock_ EXCEPT ![s] = FALSE]
         /\ released' = [released EXCEPT ![s] = @ + 1]
    ELSE UNCHANGED <<g_session_active, profiler_lock_, released>>

\* The profiler factories registered in the process (RegisterProfilerFactory
\* runs at start-up), each standing for the profiler it produces.
FactoryLists == {[i \in 1..n |-> i] : n \in 0..MaxPlugins}

\* CreateProfilers(options, &profilers): one profiler from each registered
\* factory, in registration order.
CreateProfilers(opts) == factories

\* ------------------------------------------------------------------- Init
NoCall == [t \in Threads |-> <<>>]
NoFail == [t \in Threads |-> {}]

Init ==
    /\ IS_MOBILE_PLATFORM \in BOOLEAN
    /\ factories \in FactoryLists
    /\ g_session_active = FALSE
    /\ now = 1
    /\ sstate = [s \in Sessions |-> "none"]
    /\ status_ = [s \in Sessions |-> OK]
    /\ profiler_lock_ = [s \in Sessions |-> FALSE]
    /\ options_ = [s \in Sessions |-> EmptyOptions]
    /\ start_time_ns_ = [s \in Sessions |-> <<>>]
    /\ profilers_ = [s \in Sessions |-> <<>>]
    /\ mutex_ = [s \in Sessions |-> 0]
    /\ pstate = [s \in Sessions |-> [p \in Plugins |-> "new"]]
    /\ factoryOrder = [s \in Sessions |-> <<>>]
    /\ released = [s \in Sessions |-> 0]
    /\ passes = [s \in Sessions |-> 0]
    /\ pc = [t \in Threads |-> "idle"]
    /\ self = [t \in Threads |-> 0]
    /\ op = [t \in Threads |-> "none"]
    /\ ret = [t \in Threads |-> "none"]
    /\ post = NoCall
    /\ idx = [t \in Threads |-> 0]
    /\ wake = [t \in Threads |-> 0]
    /\ options = [t \in Threads |-> EmptyOptions]
    /\ startLog = NoCall
    /\ startFailed = NoFail
    /\ stopLog = NoCall
    /\ stopFailed = NoFail
    /\ collectLog = NoCall
    /\ collectFailed = NoFail
    /\ space = NoCall

\* Thread t enters operation o on session s; r is what it has returned so far.
BeginCall(t, s, o, r) ==
    /\ self' = [self EXCEPT ![t] = s]
    /\ op' = [op EXCEPT ![t] = o]
    /\ ret' = [ret EXCEPT ![t] = r]
    /\ post' = [post EXCEPT ![t] = <<>>]

\* The call of thread t returns: what it did on the way is dropped.
DropCall(t) ==
    /\ startLog' = [startLog EXCEPT ![t] = <<>>]
    /\ startFailed' = [startFailed EXCEPT ![t] = {}]
    /\ stopLog' = [stopLog EXCEPT ![t] = <<>>]
    /\ stopFailed' = [stopFailed EXCEPT ![t] = {}]
    /\ collectLog' = [collectLog EXCEPT ![t] = <<>>]
    /\ collectFailed' = [collectFailed EXCEPT ![t] = {}]
    /\ space' = [space EXCEPT ![t] = <<>>]
    /\ idx' = [idx EXCEPT ![t] = 0]
    /\ wake' = [wake EXCEPT ![t] = 0]
    /\ options' = [options EXCEPT ![t] = EmptyOptions]

\* No call is in progress on session s.
Quiescent(s) == \A t \in Threads : pc[t] # "idle" => self[t] # s

\* Calls of CollectData in progress on session s.
Collecting(s) ==
    {t \in Threads : self[t] = s /\ op[t] = "CollectData" /\ pc[t] # "idle"}

\* The next session object to be allocated.
FreshSession(s) ==
    /\ sstate[s] = "none"
    /\ \A r \in Sessions : r < s => sstate[r] # "none"

\* the clock
Tick ==
    /\ now < MaxTime
    /\ now' = now + 1
    /\ UNCHANGED <<envVars, g_session_active, sessVars, histVars,
                   thrVars, callVars>>

\* ------------------------------------------------------------------ Create
\* Create as it would be if the mobile constructor went on to the lock instead
\* of having an empty body.
Create_LocksOnMobile(t, opts) ==
    /\ pc[t] = "idle"
    /\ \E s \in Sessions :
        /\ FreshSession(s)
        /\ BeginCall(t, s, "Create", "none")
        /\ status_' = [status_ EXCEPT ![s] =
                         IF IS_MOBILE_PLATFORM THEN Unimplemented ELSE @]
        /\ options' = [options EXCEPT ![t] = opts]
        /\ options_' = [options_ EXCEPT ![s] = GetOptions(opts)]
        /\ sstate' = [sstate EXCEPT ![s] = "constructing"]
        /\ pc' = [pc EXCEPT ![t] = "ctor_acquire"]
    /\ UNCHANGED <<envVars, g_session_active, now, profiler_lock_,
                   start_time_ns_, profilers_, mutex_, histVars, idx, wake,
                   callVars>>

\* ProfilerSession::Create(options): the constructor is entered and its member
\* initialisers run: options_(GetOptions(options)), or on a mobile build
\* status_(Unimplemented) followed by an empty body.
Create(t, opts) ==
    /\ pc[t] = "idle"
    /\ \E s \in Sessions :
        /\ FreshSession(s)
        /\ BeginCall(t, s, "Create", "none")
        /\ IF IS_MOBILE_PLATFORM
           THEN /\ status_' = [status_ EXCEPT ![s] = Unimplemented]
                /\ sstate' = [sstate EXCEPT ![s] = "live"]
                /\ UNCHANGED <<options_, options, pc>>
           ELSE /\ options' = [options EXCEPT ![t] = opts]
                /\ options_' = [options_ EXCEPT ![s] = GetOptions(opts)]
                /\ sstate' = [sstate EXCEPT ![s] = "constructing"]
                /\ pc' = [pc EXCEPT ![t] = "ctor_acquire"]
                /\ UNCHANGED status_
    /\ UNCHANGED <<envVars, g_session_active, now, profiler_lock_,
                   start_time_ns_, profilers_, mutex_, histVars, idx, wake,
                   callVars>>

\* CtorAcquire as it would be without the test of profiler_lock.ok().
CtorAcquire_LockIgnored(t) ==
    /\ pc[t] = "ctor_acquire"
    /\ g_session_active' = TRUE
    /\ profiler_lock_' = [profiler_lock_ EXCEPT ![self[t]] = TRUE]
    /\ pc' = [pc EXCEPT ![t] = "ctor_delay"]
    /\ UNCHANGED <<envVars, now, status_, sstate, options_, start_time_ns_,
                   profilers_, mutex_, histVars, whoVars, ret, post, idx,
                   wake, options, callVars>>

\* auto profiler_lock = ProfilerLock::Acquire();
\* if (!profiler_lock.ok()) { status_ = profiler_lock.status(); return; }
\* profiler_lock_ = *std::move(profiler_lock);
CtorAcquire(t) ==
    /\ pc[t] = "ctor_acquire"
    /\ LET s == self[t] IN
       IF AcquireOk
       THEN /\ g_session_active' = TRUE
            /\ profiler_lock_' = [profiler_lock_ EXCEPT ![s] = TRUE]
            /\ pc' = [pc EXCEPT ![t] = "ctor_delay"]
            /\ UNCHANGED <<status_, sstate, options>>
       ELSE /\ status_' = [status_ EXCEPT ![s] = AlreadyActive]
            /\ sstate' = [sstate EXCEPT ![s] = "live"]
            /\ pc' = [pc EXCEPT ![t] = "idle"]
            /\ options' = [options EXCEPT ![t] = EmptyOptions]
            /\ UNCHANGED <<g_session_active, profiler_lock_>>
    /\ UNCHANGED <<envVars, now, options_, start_time_ns_,
                   profilers_, mutex_, histVars, whoVars, ret, post, idx,
                   wake, callVars>>

\* CtorDelay as it would be if the constructor gave the process lock back
\* for the time of the sleep.
CtorDelay_SleepsUnlocked(t) ==
    /\ pc[t] = "ctor_delay"
    /\ LET s == self[t]
           sleep_duration_ns == options_[s].start_timestamp_ns - now
       IN  IF options_[s].start_timestamp_ns > 0 /\ ~(sleep_duration_ns < 0)
           THEN /\ wake' = [wake EXCEPT ![t] = now + sleep_duration_ns]
                /\ pc' = [pc EXCEPT ![t] = "ctor_sleep"]
                /\ g_session_active' = FALSE
           ELSE /\ pc' = [pc EXCEPT ![t] = "ctor_record"]
                /\ UNCHANGED <<wake, g_session_active>>
    /\ UNCHANGED <<envVars, now, sessVars, histVars, whoVars, ret, post, idx,
                   options, callVars>>

\* CtorDelay as it would be without the call of SleepForNanos.
CtorDelay_NoSleep(t) ==
    /\ pc[t] = "ctor_delay"
    /\ pc' = [pc EXCEPT ![t] = "ctor_record"]
    /\ UNCHANGED <<envVars, g_session_active, now, sessVars, histVars,
                   whoVars, ret, post, idx, wake, options, callVars>>

\* if (options_.start_timestamp_ns() > 0) {
\*   sleep_duration_ns = options_.start_timestamp_ns() - GetCurrentTimeNanos();
\*   if (sleep_duration_ns < 0) LOG(WARNING) else SleepForNanos(sleep_duration_ns)
CtorDelay(t) ==
    /\ pc[t] = "ctor_delay"
    /\ LET s == self[t]
           sleep_duration_ns == options_[s].start_timestamp_ns - now
       IN  IF options_[s].start_timestamp_ns > 0 /\ ~(sleep_duration_ns < 0)
           THEN /\ wake' = [wake EXCEPT ![t] = now + sleep_duration_ns]
                /\ pc' = [pc EXCEPT ![t] = "ctor_sleep"]
           ELSE /\ pc' = [pc EXCEPT ![t] = "ctor_record"]
                /\ UNCHANGED wake
    /\ UNCHANGED <<envVars, g_session_active, now, sessVars,
                   histVars, whoVars, ret, post, idx, options, callVars>>

\* profiler::SleepForNanos(sleep_duration_ns) returns, not before its time.
CtorSleep(t) ==
    /\ pc[t] = "ctor_sleep"
    /\ now >= wake[t]
    /\ pc' = [pc EXCEPT ![t] = "ctor_record"]
    /\ UNCHANGED <<envVars, g_session_active, now, sessVars,
                   histVars, whoVars, ret, post, idx, wake, options, callVars>>

\* start_time_ns_ = profiler::GetCurrentTimeNanos();
CtorRecord(t) ==
    /\ pc[t] = "ctor_record"
    /\ start_time_ns_' = [start_time_ns_ EXCEPT ![self[t]] = <<now>>]
    /\ pc' = [pc EXCEPT ![t] = "ctor_create"]
    /\ UNCHANGED <<envVars, g_session_active, now, sstate, status_,
                   profiler_lock_, options_, profilers_, mutex_, histVars,
                   whoVars, ret, post, idx, wake, options, callVars>>

\* DCHECK(profiler_lock_.Active()); CreateProfilers(options_, &profilers_);
CtorCreateProfilers(t) ==
    /\ pc[t] = "ctor_create"
    /\ LET ps == CreateProfilers(options_[self[t]]) IN
        /\ profilers_' = [profilers_ EXCEPT ![self[t]] = ps]
        /\ factoryOrder' = [factoryOrder EXCEPT ![self[t]] = ps]
    /\ idx' = [idx EXCEPT ![t] = 1]
    /\ pc' = [pc EXCEPT ![t] = "ctor_start"]
    /\ UNCHANGED <<envVars, g_session_active, now, sstate, status_,
                   profiler_lock_, options_, start_time_ns_, mutex_, pstate,
                   released, passes, whoVars, ret, post, wake,
                   options, callVars>>

\* CtorStart as it would be if a failed Start ended the start loop.
CtorStart_AbortsOnFailure(t) ==
    /\ pc[t] = "ctor_start"
    /\ idx[t] <= Len(profilers_[self[t]])
    /\ LET s == self[t]
           p == profilers_[s][idx[t]]
       IN  /\ \E start_ok \in BOOLEAN :
                /\ startFailed' = [startFailed EXCEPT ![t] =
                                     IF start_ok THEN @ ELSE @ \cup {p}]
                /\ idx' = [idx EXCEPT ![t] =
                             IF start_ok THEN @ + 1 ELSE Len(profilers_[s]) + 1]
           /\ startLog' = [startLog EXCEPT ![t] = Append(@, p)]
           /\ pstate' = [pstate EXCEPT ![s][p] = "started"]
    /\ UNCHANGED <<envVars, g_session_active, now, sessVars, factoryOrder,
                   released, passes, pc, whoVars, ret, post, wake,
                   options, stopLog,
                   stopFailed, collectLog, collectFailed, space>>

\* CtorStart as it would be if a failed Start were stored:
\* if (!start_status.ok()) status_ = start_status;
CtorStart_KeepsError(t) ==
    /\ pc[t] = "ctor_start"
    /\ idx[t] <= Len(profilers_[self[t]])
    /\ LET s == self[t]
           p == profilers_[s][idx[t]]
       IN  /\ \E start_ok \in BOOLEAN :
                /\ startFailed' = [startFailed EXCEPT ![t] =
                                     IF start_ok THEN @ ELSE @ \cup {p}]
                /\ status_' = [status_ EXCEPT ![s] =
                                 IF start_ok THEN @ ELSE "PluginError"]
           /\ startLog' = [startLog EXCEPT ![t] = Append(@, p)]
           /\ pstate' = [pstate EXCEPT ![s][p] = "started"]
           /\ idx' = [idx EXCEPT ![t] = @ + 1]
    /\ UNCHANGED <<envVars, g_session_active, now, sstate, profiler_lock_,
                   options_, start_time_ns_, profilers_, mutex_, factoryOrder,
                   released, passes, pc, whoVars, ret, post, wake, options,
                   stopLog, stopFailed, collectLog, collectFailed, space>>

\* for (auto& profiler : profilers_) { auto start_status = profiler->Start();
\*   if (!start_status.ok()) LOG(WARNING) << ...; }
CtorStart(t) ==
    /\ pc[t] = "ctor_start"
    /\ idx[t] <= Len(profilers_[self[t]])
    /\ LET s == self[t]
           p == profilers_[s][idx[t]]
       IN  /\ \E start_ok \in BOOLEAN :
                startFailed' = [startFailed EXCEPT ![t] =
                                  IF start_ok THEN @ ELSE @ \cup {p}]
           /\ startLog' = [startLog EXCEPT ![t] = Append(@, p)]
           /\ pstate' = [pstate EXCEPT ![s][p] = "started"]
           /\ idx' = [idx EXCEPT ![t] = @ + 1]
    /\ UNCHANGED <<envVars, g_session_active, now, sessVars,
                   factoryOrder, released, passes, pc, whoVars, ret, post,
                   wake, options, stopLog, stopFailed, collectLog,
                   collectFailed, space>>

\* The start loop is over: the constructor returns and Create hands the
\* session to its caller.
CtorReturn(t) ==
    /\ pc[t] = "ctor_start"
    /\ idx[t] > Len(profilers_[self[t]])
    /\ sstate' = [sstate EXCEPT ![self[t]] = "live"]
    /\ pc' = [pc EXCEPT ![t] = "idle"]
    /\ DropCall(t)
    /\ UNCHANGED <<envVars, g_session_active, now, status_,
                   profiler_lock_, options_, start_time_ns_, profilers_,
                   mutex_, histVars, whoVars, ret, post>>

\* ------------------------------------------------------------------ Status
\* mutex_lock l(mutex_); return status_;
Status(t, s) ==
    /\ pc[t] = "idle"
    /\ sstate[s] = "live"
    /\ mutex_[s] = 0
    /\ BeginCall(t, s, "Status", status_[s])
    /\ UNCHANGED <<envVars, g_session_active, now, sessVars,
                   histVars, pc, idx, wake, options, callVars>>

\* ------------------------------------------------------------- CollectData
\* ProfilerSession::CollectData(space) is called.  On a mobile build its body
\* is the single statement  return Status::OK();
CollectData(t, s) ==
    /\ pc[t] = "idle"
    /\ sstate[s] = "live"
    /\ passes[s] + Cardinality(Collecting(s)) < MaxCollects
    /\ IF IS_MOBILE_PLATFORM
       THEN /\ BeginCall(t, s, "CollectData", OK)
            /\ UNCHANGED pc
       ELSE /\ BeginCall(t, s, "CollectData", "none")
            /\ pc' = [pc EXCEPT ![t] = "cd_enter"]
    /\ UNCHANGED <<envVars, g_session_active, now, sessVars, histVars, idx,
                   wake, options, callVars>>

\* CdEnter as it would be without TF_RETURN_IF_ERROR(status_).
CdEnter_NoStatusCheck(t) ==
    /\ pc[t] = "cd_enter"
    /\ mutex_[self[t]] = 0
    /\ mutex_' = [mutex_ EXCEPT ![self[t]] = t]
    /\ idx' = [idx EXCEPT ![t] = 1]
    /\ pc' = [pc EXCEPT ![t] = "cd_stop"]
    /\ UNCHANGED <<envVars, g_session_active, now, sstate, status_,
                   profiler_lock_, options_, start_time_ns_, profilers_,
                   histVars, whoVars, ret, post, wake, options, callVars>>

\* CdEnter as it would be if ReleaseIfActive were called at the top of
\* CollectDataInternal, ahead of the stop loop.
CdEnter_ReleasesFirst(t) ==
    /\ pc[t] = "cd_enter"
    /\ LET s == self[t] IN
       /\ mutex_[s] = 0
       /\ IF status_[s] # OK
          THEN /\ ret' = [ret EXCEPT ![t] = status_[s]]
               /\ pc' = [pc EXCEPT ![t] = "idle"]
               /\ UNCHANGED <<mutex_, idx, g_session_active, profiler_lock_,
                              released>>
          ELSE /\ ReleaseIfActive(s)
               /\ mutex_' = [mutex_ EXCEPT ![s] = t]
               /\ idx' = [idx EXCEPT ![t] = 1]
               /\ pc' = [pc EXCEPT ![t] = "cd_stop"]
               /\ UNCHANGED ret
    /\ UNCHANGED <<envVars, now, sstate, status_, options_, start_time_ns_,
                   profilers_, pstate, factoryOrder, passes, whoVars, post,
                   wake, options, callVars>>

\* CdEnter as it would be without  mutex_lock l(mutex_).
CdEnter_NoMutex(t) ==
    /\ pc[t] = "cd_enter"
    /\ LET s == self[t] IN
       IF status_[s] # OK
       THEN /\ ret' = [ret EXCEPT ![t] = status_[s]]
            /\ pc' = [pc EXCEPT ![t] = "idle"]
            /\ UNCHANGED <<mutex_, idx>>
       ELSE /\ mutex_' = [mutex_ EXCEPT ![s] = t]
            /\ idx' = [idx EXCEPT ![t] = 1]
            /\ pc' = [pc EXCEPT ![t] = "cd_stop"]
            /\ UNCHANGED ret
    /\ UNCHANGED <<envVars, g_session_active, now, sstate, status_,
                   profiler_lock_, options_, start_time_ns_, profilers_,
                   histVars, whoVars, post, wake, options, callVars>>

\* CollectDataInternal:  mutex_lock l(mutex_); TF_RETURN_IF_ERROR(status_);
\* on an error CollectData's own TF_RETURN_IF_ERROR returns it to the caller.
CdEnter(t) ==
    /\ pc[t] = "cd_enter"
    /\ LET s == self[t] IN
       /\ mutex_[s] = 0
       /\ IF status_[s] # OK
          THEN /\ ret' = [ret EXCEPT ![t] = status_[s]]
               /\ pc' = [pc EXCEPT ![t] = "idle"]
               /\ UNCHANGED <<mutex_, idx>>
          ELSE /\ mutex_' = [mutex_ EXCEPT ![s] = t]
               /\ idx' = [idx EXCEPT ![t] = 1]
               /\ pc' = [pc EXCEPT ![t] = "cd_stop"]
               /\ UNCHANGED ret
    /\ UNCHANGED <<envVars, g_session_active, now, sstate, status_,
                   profiler_lock_, options_, start_time_ns_, profilers_,
                   histVars, whoVars, post, wake, options, callVars>>

\* CdStop as it would be without the stop loop.
CdStop_NoStop(t) ==
    /\ pc[t] = "cd_stop"
    /\ idx' = [idx EXCEPT ![t] = 1]
    /\ pc' = [pc EXCEPT ![t] = "cd_collect"]
    /\ UNCHANGED <<envVars, g_session_active, now, sessVars, histVars,
                   whoVars, ret, post, wake, options, callVars>>

\* CdStop as it would be if the stop loop ran from the back of profilers_.
CdStop_Reversed(t) ==
    /\ pc[t] = "cd_stop"
    /\ LET s == self[t] IN
       IF idx[t] <= Len(profilers_[s])
       THEN LET p == profilers_[s][Len(profilers_[s]) + 1 - idx[t]] IN
            /\ \E stop_ok \in BOOLEAN :
                stopFailed' = [stopFailed EXCEPT ![t] =
                                 IF stop_ok THEN @ ELSE @ \cup {p}]
            /\ stopLog' = [stopLog EXCEPT ![t] = Append(@, p)]
            /\ pstate' = [pstate EXCEPT ![s][p] = "stopped"]
            /\ idx' = [idx EXCEPT ![t] = @ + 1]
            /\ UNCHANGED pc
       ELSE /\ idx' = [idx EXCEPT ![t] = 1]
            /\ pc' = [pc EXCEPT ![t] = "cd_collect"]
            /\ stopFailed' = [stopFailed EXCEPT ![t] = {}]
            /\ UNCHANGED <<stopLog, pstate>>
    /\ UNCHANGED <<envVars, g_session_active, now, sessVars, factoryOrder,
                   released, passes, whoVars, ret, post, wake,
                   options, startLog,
                   startFailed, collectLog, collectFailed, space>>

\* for (auto& profiler : profilers_) profiler->Stop().IgnoreError();
CdStop(t) ==
    /\ pc[t] = "cd_stop"
    /\ LET s == self[t] IN
       IF idx[t] <= Len(profilers_[s])
       THEN LET p == profilers_[s][idx[t]] IN
            /\ \E stop_ok \in BOOLEAN :
                stopFailed' = [stopFailed EXCEPT ![t] =
                                 IF stop_ok THEN @ ELSE @ \cup {p}]
            /\ stopLog' = [stopLog EXCEPT ![t] = Append(@, p)]
            /\ pstate' = [pstate EXCEPT ![s][p] = "stopped"]
            /\ idx' = [idx EXCEPT ![t] = @ + 1]
            /\ UNCHANGED pc
       ELSE /\ idx' = [idx EXCEPT ![t] = 1]
            /\ pc' = [pc EXCEPT ![t] = "cd_collect"]
            /\ stopFailed' = [stopFailed EXCEPT ![t] = {}]
            /\ UNCHANGED <<stopLog, pstate>>
    /\ UNCHANGED <<envVars, g_session_active, now, sessVars,
                   factoryOrder, released, passes, whoVars, ret, post, wake,
                   options,
                   startLog, startFailed, collectLog,
                   collectFailed, space>>

\* CdCollect as it would be with TF_RETURN_IF_ERROR(profiler->CollectData(space))
\* in place of IgnoreError(): the first failure is returned to the caller.
CdCollect_ReturnsOnFailure(t) ==
    /\ pc[t] = "cd_collect"
    /\ LET s == self[t] IN
       IF idx[t] <= Len(profilers_[s])
       THEN LET p == profilers_[s][idx[t]] IN
            \E collect_ok \in BOOLEAN :
                IF collect_ok
                THEN /\ space' = [space EXCEPT ![t] = Append(@, p)]
                     /\ collectLog' = [collectLog EXCEPT ![t] = Append(@, p)]
                     /\ idx' = [idx EXCEPT ![t] = @ + 1]
                     /\ UNCHANGED <<pc, ret, mutex_, collectFailed, startLog,
                                    startFailed, stopLog, stopFailed, wake,
                                    options>>
                ELSE /\ ret' = [ret EXCEPT ![t] = "PluginError"]
                     /\ mutex_' = [mutex_ EXCEPT ![s] = 0]
                     /\ pc' = [pc EXCEPT ![t] = "idle"]
                     /\ DropCall(t)
       ELSE /\ pc' = [pc EXCEPT ![t] = "cd_release"]
            /\ UNCHANGED <<ret, mutex_, wake, options, callVars, idx>>
    /\ UNCHANGED <<envVars, g_session_active, now, sstate, status_,
                   profiler_lock_, options_, start_time_ns_, profilers_,
                   histVars, whoVars, post>>

\* for (auto& profiler : profilers_) profiler->CollectData(space).IgnoreError();
\* a profiler whose CollectData fails adds nothing to the space.
CdCollect(t) ==
    /\ pc[t] = "cd_collect"
    /\ LET s == self[t] IN
       IF idx[t] <= Len(profilers_[s])
       THEN LET p == profilers_[s][idx[t]] IN
            /\ \E collect_ok \in BOOLEAN :
                /\ collectFailed' = [collectFailed EXCEPT ![t] =
                                       IF collect_ok THEN @ ELSE @ \cup {p}]
                /\ space' = [space EXCEPT ![t] =
                               IF collect_ok THEN Append(@, p) ELSE @]
            /\ collectLog' = [collectLog EXCEPT ![t] = Append(@, p)]
            /\ idx' = [idx EXCEPT ![t] = @ + 1]
            /\ UNCHANGED pc
       ELSE /\ pc' = [pc EXCEPT ![t] = "cd_release"]
            /\ UNCHANGED <<collectFailed, collectLog, space, idx>>
    /\ UNCHANGED <<envVars, g_session_active, now, sessVars,
                   histVars, whoVars, ret, post, wake, options, startLog,
                   startFailed, stopLog, stopFailed>>

\* CdRelease as it would be without profiler_lock_.ReleaseIfActive().
CdRelease_NoRelease(t) ==
    /\ pc[t] = "cd_release"
    /\ mutex_' = [mutex_ EXCEPT ![self[t]] = 0]
    /\ passes' = [passes EXCEPT ![self[t]] = @ + 1]
    /\ pc' = [pc EXCEPT ![t] = "cd_post"]
    /\ UNCHANGED <<envVars, g_session_active, now, sstate, status_,
                   profiler_lock_, options_, start_time_ns_, profilers_,
                   pstate, factoryOrder, released, whoVars, ret, post, idx,
                   wake, options, callVars>>

\* CdRelease as it would be if CollectData freed the process lock whether
\* or not the session still holds it.
CdRelease_Unconditional(t) ==
    /\ pc[t] = "cd_release"
    /\ g_session_active' = FALSE
    /\ profiler_lock_' = [profiler_lock_ EXCEPT ![self[t]] = FALSE]
    /\ released' = [released EXCEPT ![self[t]] =
                       IF Active(self[t]) THEN @ + 1 ELSE @]
    /\ mutex_' = [mutex_ EXCEPT ![self[t]] = 0]
    /\ passes' = [passes EXCEPT ![self[t]] = @ + 1]
    /\ pc' = [pc EXCEPT ![t] = "cd_post"]
    /\ UNCHANGED <<envVars, now, sstate, status_, options_,
                   start_time_ns_, profilers_, pstate, factoryOrder, whoVars,
                   ret, post, idx, wake, options, callVars>>

\* profiler_lock_.ReleaseIfActive(); return Status::OK();   (mutex_ unlocked)
CdRelease(t) ==
    /\ pc[t] = "cd_release"
    /\ ReleaseIfActive(self[t])
    /\ mutex_' = [mutex_ EXCEPT ![self[t]] = 0]
    /\ passes' = [passes EXCEPT ![self[t]] = @ + 1]
    /\ pc' = [pc EXCEPT ![t] = "cd_post"]
    /\ UNCHANGED <<envVars, now, sstate, status_, options_,
                   start_time_ns_, profilers_, pstate, factoryOrder, whoVars,
                   ret, post, idx, wake, options, callVars>>

\* CdPostProcess as it would be if the post-processing were given the
\* current time instead of the recorded start time.
CdPostProcess_UsesNow(t) ==
    /\ pc[t] = "cd_post"
    /\ post' = [post EXCEPT ![t] = Append(@, <<now>>)]
    /\ ret' = [ret EXCEPT ![t] = OK]
    /\ pc' = [pc EXCEPT ![t] = "idle"]
    /\ DropCall(t)
    /\ UNCHANGED <<envVars, g_session_active, now, sessVars,
                   histVars, whoVars>>

\* PostProcessSingleHostXSpace(space, start_time_ns_); return Status::OK();
CdPostProcess(t) ==
    /\ pc[t] = "cd_post"
    /\ post' = [post EXCEPT ![t] = Append(@, start_time_ns_[self[t]])]
    /\ ret' = [ret EXCEPT ![t] = OK]
    /\ pc' = [pc EXCEPT ![t] = "idle"]
    /\ DropCall(t)
    /\ UNCHANGED <<envVars, g_session_active, now, sessVars,
                   histVars, whoVars>>

\* -------------------------------------------------------- ~ProfilerSession
\* The session object is gone: its storage and what its callers remember
\* of it are as before it was created.
Forget(s, m) == [t \in Threads |-> IF self[t] = s THEN m[1] ELSE m[2][t]]

Destroyed(s) ==
    /\ sstate' = [sstate EXCEPT ![s] = "none"]
    /\ status_' = [status_ EXCEPT ![s] = OK]
    /\ options_' = [options_ EXCEPT ![s] = EmptyOptions]
    /\ start_time_ns_' = [start_time_ns_ EXCEPT ![s] = <<>>]
    /\ profilers_' = [profilers_ EXCEPT ![s] = <<>>]
    /\ pstate' = [pstate EXCEPT ![s] = [p \in Plugins |-> "new"]]
    /\ factoryOrder' = [factoryOrder EXCEPT ![s] = <<>>]
    /\ passes' = [passes EXCEPT ![s] = 0]
    /\ self' = Forget(s, <<0, self>>)
    /\ op' = Forget(s, <<"none", op>>)
    /\ ret' = Forget(s, <<"none", ret>>)
    /\ post' = Forget(s, <<<<>>, post>>)

\* The owner drops the session while no call on it is in progress.  On a
\* mobile build the destructor's body is empty.
Destroy(t, s) ==
    /\ pc[t] = "idle"
    /\ sstate[s] = "live"
    /\ Quiescent(s)
    /\ IF IS_MOBILE_PLATFORM
       THEN /\ Destroyed(s)
            /\ UNCHANGED <<pc, idx>>
       ELSE /\ BeginCall(t, s, "Destroy", "none")
            /\ sstate' = [sstate EXCEPT ![s] = "destroying"]
            /\ idx' = [idx EXCEPT ![t] = 1]
            /\ pc' = [pc EXCEPT ![t] = "dt_stop"]
            /\ UNCHANGED <<status_, options_, start_time_ns_, profilers_,
                           pstate, factoryOrder, passes>>
    /\ UNCHANGED <<envVars, g_session_active, now, profiler_lock_,
                   mutex_, released, wake, options, callVars>>

\* DtStop as it would be if the destructor skipped the profilers that
\* CollectData had already stopped.
DtStop_SkipsStopped(t) ==
    /\ pc[t] = "dt_stop"
    /\ LET s == self[t] IN
       IF idx[t] <= Len(profilers_[s])
       THEN LET p == profilers_[s][idx[t]] IN
            /\ IF pstate[s][p] = "stopped"
               THEN UNCHANGED <<stopFailed, stopLog, pstate>>
               ELSE /\ \E stop_ok \in BOOLEAN :
                        stopFailed' = [stopFailed EXCEPT ![t] =
                                         IF stop_ok THEN @ ELSE @ \cup {p}]
                    /\ stopLog' = [stopLog EXCEPT ![t] = Append(@, p)]
                    /\ pstate' = [pstate EXCEPT ![s][p] = "stopped"]
            /\ idx' = [idx EXCEPT ![t] = @ + 1]
            /\ UNCHANGED pc
       ELSE /\ pc' = [pc EXCEPT ![t] = "dt_release"]
            /\ stopFailed' = [stopFailed EXCEPT ![t] = {}]
            /\ UNCHANGED <<stopLog, pstate, idx>>
    /\ UNCHANGED <<envVars, g_session_active, now, sessVars,
                   factoryOrder, released, passes, whoVars, ret, post, wake,
                   options, startLog, startFailed, collectLog,
                   collectFailed, space>>

\* for (auto& profiler : profilers_) profiler->Stop().IgnoreError();
DtStop(t) ==
    /\ pc[t] = "dt_stop"
    /\ LET s == self[t] IN
       IF idx[t] <= Len(profilers_[s])
       THEN LET p == profilers_[s][idx[t]] IN
            /\ \E stop_ok \in BOOLEAN :
                stopFailed' = [stopFailed EXCEPT ![t] =
                                 IF stop_ok THEN @ ELSE @ \cup {p}]
            /\ stopLog' = [stopLog EXCEPT ![t] = Append(@, p)]
            /\ pstate' = [pstate EXCEPT ![s][p] = "stopped"]
            /\ idx' = [idx EXCEPT ![t] = @ + 1]
            /\ UNCHANGED pc
       ELSE /\ pc' = [pc EXCEPT ![t] = "dt_release"]
            /\ stopFailed' = [stopFailed EXCEPT ![t] = {}]
            /\ UNCHANGED <<stopLog, pstate, idx>>
    /\ UNCHANGED <<envVars, g_session_active, now, sessVars,
                   factoryOrder, released, passes, whoVars, ret, post, wake,
                   options,
                   startLog, startFailed, collectLog,
                   collectFailed, space>>

\* DtRelease as it would be if the destructor freed the process lock
\* whether or not the session still holds it.
DtRelease_Unconditional(t) ==
    /\ pc[t] = "dt_release"
    /\ g_session_active' = FALSE
    /\ profiler_lock_' = [profiler_lock_ EXCEPT ![self[t]] = FALSE]
    /\ released' = [released EXCEPT ![self[t]] = @ + 1]
    /\ pc' = [pc EXCEPT ![t] = "dt_end"]
    /\ UNCHANGED <<envVars, now, sstate, status_, options_, start_time_ns_,
                   profilers_, mutex_, pstate, factoryOrder, passes, whoVars,
                   ret, post, idx, wake, options, callVars>>

\* profiler_lock_.ReleaseIfActive();
DtRelease(t) ==
    /\ pc[t] = "dt_release"
    /\ ReleaseIfActive(self[t])
    /\ pc' = [pc EXCEPT ![t] = "dt_end"]
    /\ UNCHANGED <<envVars, now, sstate, status_, options_,
                   start_time_ns_, profilers_, mutex_, pstate, factoryOrder,
                   passes, whoVars, ret, post, idx, wake, options, callVars>>

\* The destructor returns; the members and the object's storage are freed.
DtReturn(t) ==
    /\ pc[t] = "dt_end"
    /\ Destroyed(self[t])
    /\ released' = [released EXCEPT ![self[t]] = 0]
    /\ pc' = [pc EXCEPT ![t] = "idle"]
    /\ DropCall(t)
    /\ UNCHANGED <<envVars, g_session_active, now, profiler_lock_,
                   mutex_>>

\* ------------------------------------------------------------------- Next
Next ==
    \/ Tick
    \/ \E t \in Threads, opts \in CallerOptions : Create(t, opts)
    \/ \E t \in Threads : CtorAcquire(t)
    \/ \E t \in Threads : CtorDelay(t)
    \/ \E t \in Threads : CtorSleep(t)
    \/ \E t \in Threads : CtorRecord(t)
    \/ \E t \in Threads : CtorCreateProfilers(t)
    \/ \E t \in Threads : CtorStart(t)
    \/ \E t \in Threads : CtorReturn(t)
    \/ \E t \in Threads, s \in Sessions : Status(t, s)
    \/ \E t \in Threads, s \in Sessions : CollectData(t, s)
    \/ \E t \in Threads : CdEnter(t)
    \/ \E t \in Threads : CdStop(t)
    \/ \E t \in Threads : CdCollect(t)
    \/ \E t \in Threads : CdRelease(t)
    \/ \E t \in Threads : CdPostProcess(t)
    \/ \E t \in Threads, s \in Sessions : Destroy(t, s)
    \/ \E t \in Threads : DtStop(t)
    \/ \E t \in Threads : DtRelease(t)
    \/ \E t \in Threads : DtReturn(t)

Spec == Init /\ [][Next]_vars

\* =================================================================== claims
\* Sessions holding the process lock.
Holders == {s \in Sessions : profiler_lock_[s]}

\* Session s acquired the process lock in its constructor.
Acquired(s) == profiler_lock_[s] \/ released[s] > 0

\* Session s exists and its constructor has returned.
Constructed(s) == sstate[s] \in {"live", "destroying"}

\* The statements of the constructor after the lock was acquired.
CtorBody == {"ctor_delay", "ctor_sleep", "ctor_record", "ctor_create",
             "ctor_start"}

\* The statements of CollectData after the status check.
CollectBody == {"cd_stop", "cd_collect", "cd_release", "cd_post"}

Range(q) == {q[i] : i \in 1..Len(q)}
Prefix(q, n) == SubSeq(q, 1, n)

\* The plugins of q that are not in bad, in q's order.
Without(q, bad) == SelectSeq(q, LAMBDA p : p \notin bad)

Untouched(s) ==
    /\ profilers_[s] = <<>>
    /\ factoryOrder[s] = <<>>
    /\ start_time_ns_[s] = <<>>
    /\ \A p \in Plugins : pstate[s][p] = "new"

\* C1: at most one session holds the process lock; a constructor goes past
\* the lock step only as the holder, so a Create that runs while another
\* session holds the lock ends with the lock's failure as its status, and a
\* session with that status has no plugin created or started and no
\* start_time_ns recorded.
C1_OneHolder ==
    /\ Cardinality(Holders) <= 1
    /\ Holders # {} => g_session_active
    /\ \A t \in Threads : pc[t] \in CtorBody => profiler_lock_[self[t]]
    /\ \A s \in Sessions :
        /\ (~IS_MOBILE_PLATFORM /\ Constructed(s) /\ ~Acquired(s))
              => status_[s] = AlreadyActive
        /\ status_[s] = AlreadyActive => ~Acquired(s) /\ Untouched(s)

\* A Create has returned a session with the lock's failure while another
\* session holds the lock.
C1_Witness ==
    \E t \in Threads, s \in Sessions :
        /\ op[t] = "Create" /\ pc[t] = "idle" /\ self[t] # 0 /\ self[t] # s
        /\ sstate[self[t]] = "live"
        /\ status_[self[t]] = AlreadyActive
        /\ profiler_lock_[s]

\* The state part of C2: when no session holds the process lock the lock is
\* free; a CollectData pass that reached its end, or a destructor at its end,
\* has released the lock; and a session that acquired the lock has the OK
\* status.
C2_Released ==
    /\ Holders = {} => ~g_session_active
    /\ \A s \in Sessions : passes[s] >= 1 => ~profiler_lock_[s]
    /\ \A t \in Threads : pc[t] = "dt_end" => ~profiler_lock_[self[t]]
    /\ \A s \in Sessions : Acquired(s) => status_[s] = OK

\* The step part of C2: a constructor that takes the lock step while nobody
\* holds the lock acquires it.
C2_NextCreate ==
    \A t \in Threads :
        (pc[t] = "ctor_acquire" /\ pc'[t] # "ctor_acquire" /\ Holders = {})
           => /\ profiler_lock_'[self[t]]
              /\ status_'[self[t]] = OK
              /\ pc'[t] = "ctor_delay"

\* C2: once the holding session has released the process lock (through its
\* CollectData or its destructor) the lock is free, and the next Create that
\* reaches the lock step acquires it and has the OK status.
C2_ReleaseThenCreate == []C2_Released /\ [][C2_NextCreate]_vars

\* create, collect, create again: two sessions with OK status, the first has
\* collected and released, the second holds the lock.
C2_Witness ==
    \E s1, s2 \in Sessions :
        /\ s1 # s2
        /\ sstate[s1] = "live" /\ sstate[s2] = "live"
        /\ status_[s1] = OK /\ status_[s2] = OK
        /\ passes[s1] >= 1 /\ released[s1] = 1
        /\ profiler_lock_[s2]

\* C3: a session frees the process lock at most once; after its first
\* CollectData pass, or at the end of its destructor, a session that acquired
\* the lock has freed it exactly once, and the later releases leave the lock
\* of another holder in place.
C3_ReleasedOnce ==
    /\ \A s \in Sessions :
        /\ released[s] <= 1
        /\ released[s] = 1 => ~profiler_lock_[s]
        /\ (passes[s] >= 1 /\ status_[s] = OK) => released[s] = 1
    /\ \A t \in Threads :
        (pc[t] = "dt_end" /\ status_[self[t]] = OK) => released[self[t]] = 1
    /\ g_session_active => Holders # {}
    /\ Holders # {} => g_session_active

\* Two CollectData passes and then the destructor's release: freed once.
C3_Witness ==
    \E t \in Threads :
        /\ pc[t] = "dt_end"
        /\ passes[self[t]] >= 2
        /\ released[self[t]] = 1

\* C4: CollectData on a session whose constructor failed to acquire the lock
\* never gets past the status check: it calls no plugin, writes nothing to
\* the output, runs no post-processing, never releases the process lock, and
\* returns the stored failure.
C4_FailedSessionCollect ==
    /\ \A t \in Threads :
        (op[t] = "CollectData" /\ status_[self[t]] = AlreadyActive)
           => /\ pc[t] \in {"idle", "cd_enter"}
              /\ pc[t] = "idle" => ret[t] = AlreadyActive
              /\ stopLog[t] = <<>> /\ collectLog[t] = <<>>
              /\ space[t] = <<>> /\ post[t] = <<>>
              /\ mutex_[self[t]] # t
    /\ \A s \in Sessions :
        status_[s] = AlreadyActive
           => passes[s] = 0 /\ released[s] = 0 /\ Untouched(s)

\* CollectData has returned the lock's failure on a failed session while the
\* lock's holder still holds it.
C4_Witness ==
    \E t \in Threads :
        /\ op[t] = "CollectData" /\ pc[t] = "idle"
        /\ status_[self[t]] = AlreadyActive
        /\ ret[t] = AlreadyActive
        /\ Holders # {}

\* C5: whichever plugins fail to start, the start loop calls Start on every
\* plugin the factory returned, the constructor ends with status OK and the
\* list still holds every plugin; a later CollectData calls Stop and
\* CollectData on each of them and the destructor calls Stop on each of them.
C5_StartFailuresTolerated ==
    /\ \A t \in Threads :
        LET s == self[t] IN
        /\ pc[t] = "ctor_start"
             => /\ status_[s] = OK
                /\ profilers_[s] = factoryOrder[s]
                /\ startFailed[t] \subseteq Range(startLog[t])
                /\ Len(startLog[t]) = idx[t] - 1
        /\ pc[t] \in {"cd_release", "cd_post"}
             => /\ Range(stopLog[t]) = Range(factoryOrder[s])
                /\ Range(collectLog[t]) = Range(factoryOrder[s])
        /\ pc[t] \in {"dt_release", "dt_end"}
             => Range(stopLog[t]) = Range(factoryOrder[s])
    /\ \A s \in Sessions :
        (Constructed(s) /\ Acquired(s))
           => /\ status_[s] = OK
              /\ profilers_[s] = factoryOrder[s]
              /\ factoryOrder[s] = factories
              /\ \A p \in Range(factories) : pstate[s][p] # "new"

\* The first plugin's Start failed and the second plugin was started all the
\* same; the start loop is over.
C5_Witness ==
    \E t \in Threads :
        /\ pc[t] = "ctor_start"
        /\ idx[t] > Len(profilers_[self[t]])
        /\ 1 \in startFailed[t]
        /\ startLog[t] = <<1, 2>>
        /\ profilers_[self[t]] = <<1, 2>>

\* C6: CollectData on a session with OK status, whatever Stop and CollectData
\* calls fail: Stop was called on every plugin before the collect loop,
\* CollectData was called on every plugin before the release, the output
\* holds exactly the data of the plugins whose CollectData did not fail, the
\* process lock is released, and the call returns OK.
C6_CollectDegrades ==
    \A t \in Threads :
        LET s == self[t] IN
        (op[t] = "CollectData" /\ ~IS_MOBILE_PLATFORM /\ status_[s] = OK)
           => /\ pc[t] = "cd_stop" => stopFailed[t] \subseteq Range(stopLog[t])
              /\ pc[t] \in {"cd_collect", "cd_release", "cd_post"}
                    => Range(stopLog[t]) = Range(profilers_[s])
              /\ pc[t] \in {"cd_release", "cd_post"}
                    => /\ Range(collectLog[t]) = Range(profilers_[s])
                       /\ space[t] = Without(profilers_[s], collectFailed[t])
              /\ pc[t] = "cd_post" => ~profiler_lock_[s] /\ released[s] = 1
              /\ pc[t] = "idle" => ret[t] = OK

\* The first plugin's CollectData failed, the second plugin's data is in the
\* output, and the lock has been released by this first pass.
C6_Witness ==
    \E t \in Threads :
        /\ op[t] = "CollectData" /\ pc[t] = "cd_post"
        /\ passes[self[t]] = 1
        /\ collectFailed[t] = {1}
        /\ space[t] = <<2>>
        /\ ~g_session_active

\* C7: the plugins on which Start, Stop and CollectData are called are, call
\* by call, the factory's list in its order: each log is the prefix of the
\* list the loop has covered and the whole list once the loop is over.  With
\* no plugin the session still has OK status and CollectData leaves the
\* output empty and returns OK.
C7_FactoryOrder ==
    /\ \A t \in Threads :
        LET s == self[t]
            all == factoryOrder[s]
            done == Prefix(factoryOrder[s], idx[t] - 1)
        IN  /\ pc[t] = "ctor_start" => startLog[t] = done
            /\ pc[t] \in {"cd_stop", "dt_stop"} => stopLog[t] = done
            /\ pc[t] = "cd_collect" => stopLog[t] = all /\ collectLog[t] = done
            /\ pc[t] \in {"cd_release", "cd_post"}
                 => stopLog[t] = all /\ collectLog[t] = all
            /\ pc[t] \in {"dt_release", "dt_end"} => stopLog[t] = all
            /\ Range(space[t]) \subseteq Range(collectLog[t])
            /\ (op[t] = "CollectData" /\ pc[t] = "idle" /\ status_[s] = OK)
                 => ret[t] = OK
    /\ \A s \in Sessions :
        (Constructed(s) /\ Acquired(s))
           => status_[s] = OK /\ factoryOrder[s] = factories

\* Two plugins: a destructor that ran after a CollectData pass has called
\* Stop on plugin 1 and then on plugin 2.
C7_Witness ==
    \E t \in Threads :
        /\ pc[t] = "dt_end"
        /\ passes[self[t]] >= 1
        /\ stopLog[t] = <<1, 2>>
        /\ factoryOrder[self[t]] = <<1, 2>>

\* C8: a CollectData pass on a session that has already released
\* the process lock in an earlier pass calls Stop on no plugin, CollectData on
\* no plugin and writes nothing to the output.
C8_SecondCollectIsNoOp ==
    \A t \in Threads :
        (/\ op[t] = "CollectData"
         /\ pc[t] \in {"cd_stop", "cd_collect", "cd_release"}
         /\ passes[self[t]] >= 1)
           => stopLog[t] = <<>> /\ collectLog[t] = <<>> /\ space[t] = <<>>

\* C9: on a build without profiling support both Status() and
\* CollectData() return the stored Unimplemented status.
C9_UnimplementedReturned ==
    \A t \in Threads :
        (/\ IS_MOBILE_PLATFORM
         /\ op[t] \in {"Status", "CollectData"}
         /\ pc[t] = "idle")
           => ret[t] = status_[self[t]] /\ ret[t] = Unimplemented

\* C10: on a build without profiling support every session has the
\* Unimplemented status from its creation on, no constructor statement runs,
\* the process lock is never taken, no plugin is created or started, and no
\* CollectData or destructor changes the lock.
C10_MobileNeverLocks ==
    IS_MOBILE_PLATFORM
       => /\ ~g_session_active
          /\ \A t \in Threads : pc[t] = "idle"
          /\ \A s \in Sessions :
              /\ ~profiler_lock_[s] /\ released[s] = 0 /\ passes[s] = 0
              /\ Untouched(s)
              /\ sstate[s] \in {"none", "live"}
              /\ sstate[s] = "live" => status_[s] = Unimplemented

\* A mobile build on which one session was destroyed and CollectData has
\* returned on another.
C10_Witness ==
    /\ IS_MOBILE_PLATFORM
    /\ sstate[1] = "none"
    /\ \E t \in Threads :
        /\ op[t] = "CollectData" /\ pc[t] = "idle"
        /\ self[t] = 2
        /\ sstate[2] = "live"
        /\ status_[2] = Unimplemented

\* C11: a constructor that acquired the lock has the OK status throughout;
\* with a start timestamp T > 0 that the clock has not passed it sleeps until
\* the clock reaches T, otherwise (T <= 0 or T passed) it does not sleep;
\* start_time_ns is recorded after the delay and is at least T whenever
\* T > 0; until it is recorded no profiler exists or was started, and it is
\* recorded before CreateProfilers and before any Start.
C11_ScheduledStart ==
    /\ \A t \in Threads :
        LET s == self[t]
            T == options_[s].start_timestamp_ns
        IN  pc[t] \in CtorBody =>
               /\ status_[s] = OK
               /\ pc[t] \in {"ctor_delay", "ctor_sleep", "ctor_record"}
                     => Untouched(s)
               /\ pc[t] = "ctor_sleep" => T > 0 /\ wake[t] = T
               /\ pc[t] \in {"ctor_record", "ctor_create", "ctor_start"}
                     => IF wake[t] # 0
                        THEN T > 0 /\ now >= T
                        ELSE T <= 0 \/ T < now
               /\ pc[t] \in {"ctor_create", "ctor_start"}
                     => /\ start_time_ns_[s] # <<>>
                        /\ wake[t] # 0 => start_time_ns_[s][1] >= T
               /\ pc[t] = "ctor_create"
                     => /\ profilers_[s] = <<>>
                        /\ startLog[t] = <<>>
                        /\ \A p \in Plugins : pstate[s][p] = "new"
    /\ \A s \in Sessions :
        (Constructed(s) /\ Acquired(s))
           => /\ status_[s] = OK
              /\ start_time_ns_[s] # <<>>
              /\ options_[s].start_timestamp_ns > 0
                    => start_time_ns_[s][1] >= options_[s].start_timestamp_ns

\* A constructor that slept until MaxTime has recorded MaxTime as its start
\* time and is starting its profilers.
C11_Witness ==
    \E t \in Threads :
        /\ pc[t] = "ctor_start"
        /\ wake[t] = MaxTime
        /\ startLog[t] # <<>>
        /\ start_time_ns_[self[t]] = <<MaxTime>>

\* The state part of C12: a constructed session's status is OK when its
\* constructor acquired the lock and the lock's failure otherwise (the
\* Unimplemented status on a mobile build), and what Status() returned is the
\* session's status.
C12_StatusOfConstruction ==
    /\ \A s \in Sessions :
        Constructed(s) =>
            status_[s] = IF IS_MOBILE_PLATFORM THEN Unimplemented
                         ELSE IF Acquired(s) THEN OK ELSE AlreadyActive
    /\ \A t \in Threads :
        (op[t] = "Status" /\ self[t] # 0) => ret[t] = status_[self[t]]

\* The step part of C12: no step changes the status of a constructed session.
C12_StatusKept ==
    \A s \in Sessions :
        (Constructed(s) /\ Constructed(s)') => status_'[s] = status_[s]

\* C12: Status() returns the status fixed at construction for the whole life
\* of the session, whatever profiler failures, CollectData calls and lock
\* releases happen in between.
C12_StatusFixed == []C12_StatusOfConstruction /\ [][C12_StatusKept]_vars

\* Status() returned OK for a session that has collected and released the
\* lock, and the lock's failure for a session that never acquired it.
C12_Witness ==
    \E t, u \in Threads :
        /\ op[t] = "Status" /\ ret[t] = OK
        /\ passes[self[t]] >= 1 /\ released[self[t]] = 1
        /\ profilers_[self[t]] = <<1, 2>>
        /\ op[u] = "Status" /\ ret[u] = AlreadyActive

\* C13: while a constructor runs, the session's options are the merge of the
\* options it was called with: equal to them in every field when their
\* version is not 0, and otherwise the defaults in every field except
\* include_dataset_ops, which is the caller's.
C13_OptionsMerge ==
    \A t \in Threads :
        (pc[t] = "ctor_acquire" \/ pc[t] \in CtorBody) =>
            LET caller == options[t]
                merged == options_[self[t]]
            IN  IF caller.version # 0
                THEN /\ merged.version = caller.version
                     /\ merged.include_dataset_ops = caller.include_dataset_ops
                     /\ merged.start_timestamp_ns = caller.start_timestamp_ns
                ELSE /\ merged.version = DefaultOptions.version
                     /\ merged.include_dataset_ops = caller.include_dataset_ops
                     /\ merged.start_timestamp_ns
                            = DefaultOptions.start_timestamp_ns

\* A constructor called with version 0, the flag cleared and a timestamp of
\* MaxTime went past the delay without sleeping: the merged options have the
\* defaults' version and timestamp and the caller's flag.
C13_Witness ==
    \E t \in Threads :
        /\ pc[t] = "ctor_record"
        /\ wake[t] = 0
        /\ now < MaxTime
        /\ options[t].version = 0
        /\ options[t].start_timestamp_ns = MaxTime
        /\ ~options[t].include_dataset_ops
        /\ ~options_[self[t]].include_dataset_ops
        /\ options_[self[t]].start_timestamp_ns = 0

\* The state part of C14: a CollectData call has not run the post-processing
\* before its last statement; one that returned OK on a build with profiling
\* ran it exactly once, with the start_time_ns of its session; one that
\* returned the stored failure, or ran on a mobile build, did not run it.
C14_PostProcessedOnce ==
    \A t \in Threads :
        (op[t] = "CollectData" /\ self[t] # 0) =>
            LET s == self[t] IN
            /\ pc[t] # "idle" => post[t] = <<>>
            /\ (pc[t] = "idle" /\ ret[t] = OK /\ ~IS_MOBILE_PLATFORM)
                  => /\ start_time_ns_[s] # <<>>
                     /\ post[t] = <<start_time_ns_[s]>>
            /\ (pc[t] = "idle" /\ (ret[t] # OK \/ IS_MOBILE_PLATFORM))
                  => post[t] = <<>>

\* The step part of C14: start_time_ns of a constructed session never changes.
C14_StartTimeKept ==
    \A s \in Sessions :
        (Constructed(s) /\ Constructed(s)')
           => start_time_ns_'[s] = start_time_ns_[s]

C15_CollectOrder ==
    \A t \in Threads :
        (op[t] = "CollectData" /\ pc[t] \in CollectBody) =>
            LET s == self[t] IN
            /\ post[t] = <<>>
            /\ pc[t] = "cd_stop"
                  => /\ stopLog[t] = Prefix(profilers_[s], idx[t] - 1)
                     /\ collectLog[t] = <<>>
                     /\ space[t] = <<>>
            /\ pc[t] = "cd_collect"
                  => /\ stopLog[t] = profilers_[s]
                     /\ collectLog[t] = Prefix(profilers_[s], idx[t] - 1)
            /\ pc[t] \in {"cd_release", "cd_post"}
                  => /\ stopLog[t] = profilers_[s]
                     /\ collectLog[t] = profilers_[s]
            /\ pc[t] \in {"cd_collect", "cd_release", "cd_post"}
                  => \A p \in Range(profilers_[s]) : pstate[s][p] = "stopped"
            /\ (pc[t] # "cd_post" /\ passes[s] = 0)
                  => profiler_lock_[s] /\ released[s] = 0
            /\ pc[t] = "cd_post"
                  => ~profiler_lock_[s] /\ released[s] = 1

\* The first CollectData pass of a session with two profilers has released
\* the lock and is about to post-process: both were stopped, then both
\* collected, one of them failing.
C15_Witness ==
    \E t \in Threads :
        /\ op[t] = "CollectData" /\ pc[t] = "cd_post"
        /\ passes[self[t]] = 1
        /\ stopLog[t] = <<1, 2>> /\ collectLog[t] = <<1, 2>>
        /\ space[t] = <<2>>
        /\ ~g_session_active

\* C16: a destructor calls Stop on every profiler of its session, whether or
\* not CollectData ran before, calls CollectData on none and writes nothing;
\* when CollectData never ran on a session that acquired the lock, the lock
\* is held until the stop loop is over and is released after it; when
\* CollectData ran, the session's lock stays released and whoever holds the
\* process lock keeps it.
C16_Destruction ==
    \A t \in Threads :
        (op[t] = "Destroy" /\ pc[t] \in {"dt_stop", "dt_release", "dt_end"})
        => LET s == self[t] IN
           /\ collectLog[t] = <<>> /\ space[t] = <<>> /\ post[t] = <<>>
           /\ pc[t] = "dt_stop"
                 => stopLog[t] = Prefix(profilers_[s], idx[t] - 1)
           /\ pc[t] \in {"dt_release", "dt_end"}
                 => /\ stopLog[t] = profilers_[s]
                    /\ \A p \in Range(profilers_[s]) : pstate[s][p] = "stopped"
           /\ (pc[t] # "dt_end" /\ passes[s] = 0 /\ status_[s] = OK)
                 => profiler_lock_[s] /\ released[s] = 0 /\ g_session_active
           /\ (pc[t] = "dt_end" /\ status_[s] = OK)
                 => ~profiler_lock_[s] /\ released[s] = 1
           /\ passes[s] >= 1
                 => /\ ~profiler_lock_[s] /\ released[s] = 1
                    /\ Holders # {} => g_session_active

\* The destructor of a session with two profilers on which CollectData was
\* never called is past its release: both were stopped and the lock is free.
C16_Witness ==
    \E t \in Threads :
        /\ op[t] = "Destroy" /\ pc[t] = "dt_end"
        /\ passes[self[t]] = 0
        /\ stopLog[t] = <<1, 2>>
        /\ released[self[t]] = 1
        /\ ~g_session_active

\* The statements of CollectDataInternal that run with mutex_ held.
UnderMutex == {"cd_stop", "cd_collect", "cd_release"}

\* The state part of C17: at most one thread is in the stop / collect /
\* release statements of a session, it holds the session's mutex_, and the
\* mutex_ is unlocked when there is none.
C17_OneInside ==
    \A s \in Sessions :
        LET inside == {t \in Threads : self[t] = s /\ pc[t] \in UnderMutex}
        IN  /\ Cardinality(inside) <= 1
            /\ \A t \in inside : mutex_[s] = t /\ op[t] = "CollectData"
            /\ inside = {} => mutex_[s] = 0

\* The step part of C17: Status() reads status_ of a session only while no
\* thread is in the stop / collect / release statements of that session.
C17_StatusOutside ==
    \A t \in Threads :
        (/\ op'[t] = "Status"
         /\ <<op[t], self[t], ret[t], post[t]>>
                # <<op'[t], self'[t], ret'[t], post'[t]>>)
           => /\ mutex_[self'[t]] = 0
              /\ \A u \in Threads :
                    self[u] = self'[t] => pc[u] \notin UnderMutex

\* C17: Status() and the stop / collect / release phase of CollectData of one
\* session exclude each other under the session's mutex_.
C17_MutexExclusion == []C17_OneInside /\ [][C17_StatusOutside]_vars

\* Two threads called CollectData on the same session: one is collecting with
\* the mutex_ held, the other waits at the entry of CollectDataInternal.
C17_Witness ==
    \E t, u \in Threads :
        /\ t # u /\ self[t] = self[u] /\ self[t] # 0
        /\ pc[t] = "cd_collect" /\ collectLog[t] # <<>>
        /\ mutex_[self[t]] = t
        /\ pc[u] = "cd_enter"

\* The state part of C18: the session holding the process lock is the only
\* holder and the lock's flag is set while it holds.
C18_HolderKeeps ==
    \A b \in Sessions :
        profiler_lock_[b] => g_session_active /\ Holders = {b}

\* The step part of C18: a statement of CollectData or of the destructor run
\* on a session that does not hold the process lock changes neither the
\* lock's flag nor any session's hold, and a constructor that takes the lock
\* step while a session holds the lock fails with the lock's status and
\* leaves the holder in place.
C18_NotMineNotFreed ==
    \A t \in Threads :
        LET a == self[t] IN
        /\ (/\ pc[t] \in {"cd_enter", "dt_stop", "dt_release", "dt_end"}
                         \cup CollectBody
            /\ ~profiler_lock_[a]
            /\ <<pc[t], idx[t]>> # <<pc'[t], idx'[t]>>)
              => /\ g_session_active' = g_session_active
                 /\ profiler_lock_' = profiler_lock_
        /\ (pc[t] = "ctor_acquire" /\ pc'[t] # "ctor_acquire" /\ Holders # {})
              => /\ status_'[a] = AlreadyActive
                 /\ pc'[t] = "idle"
                 /\ g_session_active'
                 /\ profiler_lock_' = profiler_lock_

\* C18: a session never frees a lock it does not hold: CollectData on, or
\* destruction of, a session that released the lock or never acquired it
\* leaves the current holder in place, and a further Create fails while the
\* holder has not released.
C18_ForeignLockKept == []C18_HolderKeeps /\ [][C18_NotMineNotFreed]_vars

\* Session 1 collected and released, session 2 then acquired the lock, and
\* the destructor of session 1 is past its release statement: session 2
\* still holds the lock.
C18_Witness ==
    \E t \in Threads :
        /\ op[t] = "Destroy" /\ pc[t] = "dt_end"
        /\ self[t] = 1
        /\ passes[1] >= 1
        /\ profiler_lock_[2] /\ g_session_active
        /\ sstate[2] = "live"

\* The state part of C19: a constructor at its delay, sleeping or not yet,
\* holds the process lock, has created and started no profiler and recorded
\* no start time, and no other constructor is past the lock step.
C19_HeldWhileWaiting ==
    \A t \in Threads :
        pc[t] \in {"ctor_delay", "ctor_sleep"} =>
            /\ profiler_lock_[self[t]] /\ g_session_active
            /\ Untouched(self[t])
            /\ \A u \in Threads \ {t} : pc[u] \notin CtorBody

\* The step part of C19: while a constructor sleeps, another constructor that
\* takes the lock step fails with the lock's status and returns, and the
\* sleeping one keeps the lock.
C19_OthersFail ==
    \A t, u \in Threads :
        (/\ pc[t] = "ctor_sleep"
         /\ pc[u] = "ctor_acquire" /\ pc'[u] # "ctor_acquire")
           => /\ status_'[self[u]] = AlreadyActive
              /\ ~profiler_lock_'[self[u]]
              /\ sstate'[self[u]] = "live"
              /\ pc'[t] = "ctor_sleep"
              /\ profiler_lock_'[self[t]]

\* C19: the process lock is acquired before the scheduled-start delay and
\* held throughout it, so every Create that runs while another Create waits
\* for its start timestamp fails with the lock's status.
C19_LockHeldDuringDelay == []C19_HeldWhileWaiting /\ [][C19_OthersFail]_vars

\* A constructor sleeps, the clock not yet at its timestamp and no profiler
\* created, while the Create of another thread has returned a session with
\* the lock's failure status.
C19_Witness ==
    \E t, u \in Threads :
        /\ pc[t] = "ctor_sleep" /\ now < wake[t]
        /\ Untouched(self[t])
        /\ op[u] = "Create" /\ pc[u] = "idle"
        /\ self[u] # 0 /\ self[u] # self[t]
        /\ status_[self[u]] = AlreadyActive

\* C20: every Start is called by the session holding the process lock, a
\* session with a profiler that was started and not stopped since holds the
\* lock, and while a session starts its profilers every profiler of every
\* other session was never started or has been stopped.
C20_NoOverlap ==
    /\ \A s \in Sessions :
        (\E p \in Plugins : pstate[s][p] = "started") => profiler_lock_[s]
    /\ \A t \in Threads :
        pc[t] = "ctor_start" =>
            /\ profiler_lock_[self[t]] /\ g_session_active
            /\ \A r \in Sessions \ {self[t]} : \A p \in Plugins :
                    pstate[r][p] \in {"new", "stopped"}

\* A session is starting its second profiler while another session, which
\* collected and released the lock, has both of its profilers stopped.
C20_Witness ==
    \E t \in Threads : \E r \in Sessions :
        /\ pc[t] = "ctor_start" /\ startLog[t] = <<1>>
        /\ pstate[self[t]][1] = "started"
        /\ r # self[t] /\ sstate[r] = "live" /\ passes[r] >= 1
        /\ \A p \in Plugins : pstate[r][p] = "stopped"

====
